---- MODULE Spec2Model ----
(***************************************************************************)
(* go-mtree: keyval merging (keywords.go), the Updater (update.go), the    *)
(* size check of the Vis wrapper and the exit code of the gomtree command. *)
(*                                                                         *)
(* A Go string is modelled as a sequence of tokens.  A token is either one *)
(* of the separator characters "=", "." and " " or a run of other          *)
(* characters ("uid", "0").  The empty string is the empty sequence.       *)
(***************************************************************************)
EXTENDS Integers, Sequences, FiniteSets, TLC

VARIABLES
    \* MergeSet(setKeyVals, entryKeyVals) call
    setKeyVals, entryKeyVals, retList, mpc,
    \* Update(root, dh, keywords): arguments, locals, result
    Entries, keywords, upc, i, j, curSet, pathname, toCheck, result, ret, err,
    \* process and filesystem state seen by Update
    cwd, curDir, getwdErr, fs,
    \* history of the Update calls
    run, cwd0, fs0, lastCall, nFailed, firstClean,
    \* Vis(src): len(src) as limbs, and the outcome
    srcLen, visErr, vpc,
    \* gomtree main(): flags, outcomes of the library calls, exit code
    fl, res, isErr, deferExit, errSeen, exitCode, dh, tdh, cpc

mergeVars  == <<setKeyVals, entryKeyVals, retList, mpc>>
updateVars == <<Entries, keywords, upc, i, j, curSet, pathname, toCheck,
                result, ret, err, cwd, curDir, getwdErr, fs, run, cwd0, fs0,
                lastCall, nFailed, firstClean>>
visVars    == <<srcLen, visErr, vpc>>
mainVars   == <<fl, res, isErr, deferExit, errSeen, exitCode, dh, tdh, cpc>>
vars       == <<mergeVars, updateVars, visVars, mainVars>>

-----------------------------------------------------------------------------
(* strings package, on token sequences *)

Contains(s, t) == \E n \in 1..Len(s) : s[n] = t

Index(s, t) == IF Contains(s, t)
               THEN CHOOSE n \in 1..Len(s) : s[n] = t /\ \A m \in 1..(n-1) : s[m] # t
               ELSE 0

RECURSIVE TrimLeft(_)
TrimLeft(s) == IF s # <<>> /\ Head(s) = " " THEN TrimLeft(Tail(s)) ELSE s

RECURSIVE TrimRight(_)
TrimRight(s) == IF s # <<>> /\ s[Len(s)] = " "
                THEN TrimRight(SubSeq(s, 1, Len(s) - 1)) ELSE s

TrimSpace(s) == TrimRight(TrimLeft(s))

\* strings.SplitN(s, sep, 2)[0] and [1]; [1] is only taken where sep occurs
SplitN2First(s, sep) == IF Contains(s, sep) THEN SubSeq(s, 1, Index(s, sep) - 1) ELSE s
SplitN2Second(s, sep) == SubSeq(s, Index(s, sep) + 1, Len(s))

-----------------------------------------------------------------------------
(* keywords.go *)

\* a plausible slip: the membership test always succeeds
inSliceAlways(a, list) == TRUE

inSlice(a, list) == \E n \in 1..Len(list) : list[n] = a

Keyword(kv) ==
    IF ~Contains(kv, "=") THEN <<>>
    ELSE LET chunks == SplitN2First(TrimSpace(kv), "=")
         IN  IF ~Contains(chunks, ".") THEN chunks
             ELSE SplitN2First(chunks, ".")

Value(kv) ==
    IF ~Contains(kv, "=") THEN <<>>
    ELSE SplitN2Second(TrimSpace(kv), "=")

emptyKV == <<>>

Has(kvs, keyword) ==
    IF \E n \in 1..Len(kvs) : Keyword(kvs[n]) = keyword
    THEN kvs[CHOOSE n \in 1..Len(kvs) :
                /\ Keyword(kvs[n]) = keyword
                /\ \A m \in 1..(n-1) : Keyword(kvs[m]) # keyword]
    ELSE emptyKV

\* a plausible slip: the set's value is kept for a shared keyword
MergeSetSetWins(sKVs, eKVs) ==
    LET seenKeywords == [n \in 1..Len(sKVs) |-> Keyword(sKVs[n])]
    IN  sKVs \o SelectSeq(eKVs, LAMBDA kv : ~inSlice(Keyword(kv), seenKeywords))

MergeSet(sKVs, eKVs) ==
    LET firstLoop == [n \in 1..Len(sKVs) |->
                        LET ekv == Has(eKVs, Keyword(sKVs[n]))
                        IN  IF ekv # emptyKV THEN ekv ELSE sKVs[n]]
        seenKeywords == [n \in 1..Len(sKVs) |-> Keyword(sKVs[n])]
    IN  firstLoop \o SelectSeq(eKVs, LAMBDA kv : ~inSlice(Keyword(kv), seenKeywords))

-----------------------------------------------------------------------------
(* Inputs of the MergeSet specification *)

MaxLen == 2

KVUniverse ==
    { <<"uid", "=", "0">>, <<"uid", "=", "1">>, <<"gid", "=", "0">>,
      <<" ", "gid", "=", "1">>,
      <<"xattr", ".", "a", "=", "0">>, <<"xattr", ".", "b", "=", "1">>,
      <<"nochange">>, <<"optional">> }

SeqsUpTo(S, n) == UNION { [1..m -> S] : m \in 0..n }

MergeIdle ==
    /\ setKeyVals = <<>> /\ entryKeyVals = <<>> /\ retList = <<>> /\ mpc = "off"

MergeInit ==
    /\ setKeyVals \in SeqsUpTo(KVUniverse, MaxLen)
    /\ entryKeyVals \in SeqsUpTo(KVUniverse, MaxLen)
    /\ retList = <<>>
    /\ mpc = "call"

CallMergeSet ==
    /\ mpc = "call"
    /\ retList' = MergeSet(setKeyVals, entryKeyVals)
    /\ mpc' = "done"
    /\ UNCHANGED <<setKeyVals, entryKeyVals, updateVars, visVars, mainVars>>

-----------------------------------------------------------------------------
(* update.go: Update(root, dh, keywords) *)

DefaultUpdateKeywords == << <<"uid">>, <<"gid">>, <<"mode">>, <<"time">> >>

\* keys of the UpdateKeywordFuncs map
UpdateKeywordFuncs == { <<"uid">>, <<"gid">>, <<"mode">>, <<"time">> }

root == "root"

\* Entry.Path(): the decoded, cleaned path of an entry, or an error
PathErr(e) == e.Name = "\\"
Path(e) == IF e.Name = "./b" THEN "b" ELSE e.Name

\* sort.Sort(byPos(entries))
RECURSIVE InsertByPos(_, _)
InsertByPos(e, es) ==
    IF es = <<>> THEN <<e>>
    ELSE IF e.Pos < Head(es).Pos THEN <<e>> \o es
    ELSE <<Head(es)>> \o InsertByPos(e, Tail(es))

RECURSIVE SortByPos(_)
SortByPos(es) == IF es = <<>> THEN <<>> ELSE InsertByPos(Head(es), SortByPos(Tail(es)))

\* a plausible slip: the entry's keyvals are applied before the set's
ToCheckEntryFirst(setKeywords, eKeywords) == eKeywords \o setKeywords

\* toCheck: the keyvals of the active /set, then the entry's own
ToCheck(setKeywords, eKeywords) == setKeywords \o eKeywords

\* the keywords of the entry creator.curSet points to (none when nil)
CurSetKeywords == IF curSet # 0 THEN Entries[curSet].Keywords ELSE <<>>

\* a plausible slip: the failure of an update function is dropped
AppendFailureDropped(failures, f) == failures

AppendFailure(failures, f) == Append(failures, f)

\* the effect of a successful update function (chown, chmod, utimes): the one
\* property of the one object takes the value
UkFuncApply(f, path, k, value) == [f EXCEPT ![path][k] = value]

NoCall == [valid |-> FALSE, run |-> 0, entry |-> 0, idx |-> 0, path |-> "",
           keyword |-> <<>>, value |-> <<>>, before |-> <<>>, ok |-> FALSE]

\* return ret, e: the deferred os.Chdir(curDir) runs when Getwd had succeeded
Return(r, e) ==
    /\ ret' = r
    /\ err' = e
    /\ cwd' = IF getwdErr THEN cwd ELSE curDir
    /\ upc' = "done"
    /\ firstClean' = IF run = 1 THEN (r = "&result" /\ result.Failures = <<>>)
                     ELSE firstClean

\* the end of one iteration of the keyval loop
NextKeyVal ==
    IF j + 1 > Len(toCheck)
    THEN /\ upc' = "loop" /\ i' = i + 1 /\ j' = 0
    ELSE /\ upc' = "kv" /\ i' = i /\ j' = j + 1

-----------------------------------------------------------------------------
(* Inputs of the Update specification *)

MaxEntries == 3
MaxRuns == 2

EntryChoices ==
    { [Type |-> "SpecialType", Name |-> "/set", Keywords |-> << <<"uid", "=", "0">>, <<"mode", "=", "0">> >>],
      [Type |-> "SpecialType", Name |-> "/set", Keywords |-> << <<"uid", "=", "1">> >>],
      [Type |-> "SpecialType", Name |-> "/unset", Keywords |-> << <<"uid">> >>],
      [Type |-> "RelativeType", Name |-> "a", Keywords |-> <<>>],
      [Type |-> "RelativeType", Name |-> "a", Keywords |-> << <<"uid", "=", "1">> >>],
      [Type |-> "RelativeType", Name |-> "a", Keywords |-> << <<"size", "=", "0">>, <<"uid", "=", "0">> >>],
      [Type |-> "FullType", Name |-> "./b", Keywords |-> << <<"mode", "=", "1">> >>],
      [Type |-> "RelativeType", Name |-> "\\", Keywords |-> << <<"uid", "=", "0">> >>],
      [Type |-> "DotDotType", Name |-> "..", Keywords |-> <<>>] }

KeywordChoices == { DefaultUpdateKeywords, << <<"uid">>, <<"size">> >> }

Objects == {"a", "b"}

FsChoices ==
    { [o \in Objects |-> [k \in UpdateKeywordFuncs |-> <<"0">>]],
      [o \in Objects |-> [k \in UpdateKeywordFuncs |-> <<"1">>]] }

UpdateIdle ==
    /\ Entries = <<>> /\ keywords = <<>> /\ upc = "off" /\ i = 0 /\ j = 0
    /\ curSet = 0 /\ pathname = "" /\ toCheck = <<>>
    /\ result = [Failures |-> <<>>] /\ ret = "nil" /\ err = "nil"
    /\ cwd = "" /\ curDir = "" /\ getwdErr = FALSE
    /\ fs = [o \in {} |-> <<>>] /\ fs0 = fs
    /\ run = 0 /\ cwd0 = "" /\ lastCall = NoCall /\ nFailed = 0
    /\ firstClean = FALSE

UpdateInit ==
    /\ \E m \in 0..MaxEntries : \E f \in [1..m -> EntryChoices] :
          Entries = [n \in 1..m |->
                        [Type |-> f[n].Type, Name |-> f[n].Name,
                         Keywords |-> f[n].Keywords, Pos |-> n]]
    /\ keywords \in KeywordChoices
    /\ fs \in FsChoices
    /\ fs0 = fs
    /\ upc = "idle" /\ i = 0 /\ j = 0 /\ curSet = 0 /\ pathname = ""
    /\ toCheck = <<>> /\ result = [Failures |-> <<>>] /\ ret = "nil"
    /\ err = "nil" /\ cwd = "start" /\ curDir = "" /\ getwdErr = FALSE
    /\ run = 0 /\ cwd0 = "start" /\ lastCall = NoCall /\ nFailed = 0
    /\ firstClean = FALSE

others == <<mergeVars, visVars, mainVars>>

\* the caller: one Update, and further ones with the same arguments after a
\* call that returned a Result without Failures
CanCall ==
    /\ run < MaxRuns
    /\ upc = "idle" \/ (upc = "done" /\ ret = "&result" /\ result.Failures = <<>>)

\* lines 17-28: Getwd, the deferred Chdir, Chdir(root), the sort
UpdateEnter ==
    /\ CanCall
    /\ \E getwdOK \in BOOLEAN :
          /\ getwdErr' = ~getwdOK
          /\ curDir' = IF getwdOK THEN cwd ELSE ""
    /\ run' = run + 1
    /\ cwd0' = cwd
    /\ cwd' = root
    /\ Entries' = SortByPos(Entries)
    /\ result' = [Failures |-> <<>>]
    /\ ret' = "nil" /\ err' = "nil"
    /\ i' = 1 /\ j' = 0 /\ curSet' = 0 /\ pathname' = "" /\ toCheck' = <<>>
    /\ nFailed' = 0
    /\ upc' = "loop"
    /\ UNCHANGED <<keywords, fs, fs0, lastCall, firstClean, others>>

\* lines 23-25: os.Chdir(root) fails
UpdateChdirFails ==
    /\ CanCall
    /\ \E getwdOK \in BOOLEAN :
          /\ getwdErr' = ~getwdOK
          /\ curDir' = IF getwdOK THEN cwd ELSE ""
    /\ run' = run + 1
    /\ cwd0' = cwd
    /\ cwd' = cwd
    /\ ret' = "nil" /\ err' = "chdir"
    /\ result' = [Failures |-> <<>>]
    /\ nFailed' = 0
    /\ upc' = "done"
    /\ firstClean' = IF run = 0 THEN FALSE ELSE firstClean
    /\ UNCHANGED <<Entries, keywords, i, j, curSet, pathname, toCheck, fs, fs0,
                   lastCall, others>>

\* lines 31-38
EntrySpecial ==
    /\ upc = "loop" /\ i <= Len(Entries)
    /\ Entries[i].Type = "SpecialType"
    /\ curSet' = IF Entries[i].Name = "/set" THEN i
                 ELSE IF Entries[i].Name = "/unset" THEN 0
                 ELSE curSet
    /\ i' = i + 1
    /\ UNCHANGED <<Entries, keywords, upc, j, pathname, toCheck, result, ret, err,
                   cwd, curDir, getwdErr, fs, run, cwd0, fs0, lastCall, nFailed,
                   firstClean, others>>

\* the switch has no case for the other entry types
EntryOther ==
    /\ upc = "loop" /\ i <= Len(Entries)
    /\ Entries[i].Type \notin {"SpecialType", "RelativeType", "FullType"}
    /\ i' = i + 1
    /\ UNCHANGED <<Entries, keywords, upc, j, curSet, pathname, toCheck, result,
                   ret, err, cwd, curDir, getwdErr, fs, run, cwd0, fs0, lastCall,
                   nFailed, firstClean, others>>

\* lines 39-48
EntryPath ==
    /\ upc = "loop" /\ i <= Len(Entries)
    /\ Entries[i].Type \in {"RelativeType", "FullType"}
    /\ ~PathErr(Entries[i])
    /\ pathname' = Path(Entries[i])
    /\ toCheck' = ToCheck(CurSetKeywords, Entries[i].Keywords)
    /\ IF toCheck' = <<>>
       THEN /\ upc' = "loop" /\ i' = i + 1 /\ j' = 0
       ELSE /\ upc' = "kv" /\ i' = i /\ j' = 1
    /\ UNCHANGED <<Entries, keywords, curSet, result, ret, err, cwd, curDir,
                   getwdErr, fs, run, cwd0, fs0, lastCall, nFailed, firstClean,
                   others>>

\* lines 40-43: return nil, err
EntryPathFails ==
    /\ upc = "loop" /\ i <= Len(Entries)
    /\ Entries[i].Type \in {"RelativeType", "FullType"}
    /\ PathErr(Entries[i])
    /\ Return("nil", "path")
    /\ UNCHANGED <<Entries, keywords, i, j, curSet, pathname, toCheck, result,
                   curDir, getwdErr, fs, run, cwd0, fs0, lastCall, nFailed, others>>

\* lines 51-53
KeyValNotRequested ==
    /\ upc = "kv"
    /\ ~inSlice(Keyword(toCheck[j]), keywords)
    /\ NextKeyVal
    /\ UNCHANGED <<Entries, keywords, curSet, pathname, toCheck, result, ret, err,
                   cwd, curDir, getwdErr, fs, run, cwd0, fs0, lastCall, nFailed,
                   firstClean, others>>

\* lines 54-58
KeyValNoFunc ==
    /\ upc = "kv"
    /\ inSlice(Keyword(toCheck[j]), keywords)
    /\ Keyword(toCheck[j]) \notin UpdateKeywordFuncs
    /\ NextKeyVal
    /\ UNCHANGED <<Entries, keywords, curSet, pathname, toCheck, result, ret, err,
                   cwd, curDir, getwdErr, fs, run, cwd0, fs0, lastCall, nFailed,
                   firstClean, others>>

ThisCall(ok) ==
    [valid |-> TRUE, run |-> run, entry |-> i, idx |-> j, path |-> pathname,
     keyword |-> Keyword(toCheck[j]), value |-> Value(toCheck[j]),
     before |-> fs[pathname][Keyword(toCheck[j])], ok |-> ok]

\* line 59: ukFunc(pathname, kv.Value()) succeeds
KeyValUpdate ==
    /\ upc = "kv"
    /\ inSlice(Keyword(toCheck[j]), keywords)
    /\ Keyword(toCheck[j]) \in UpdateKeywordFuncs
    /\ fs' = UkFuncApply(fs, pathname, Keyword(toCheck[j]), Value(toCheck[j]))
    /\ lastCall' = ThisCall(TRUE)
    /\ NextKeyVal
    /\ UNCHANGED <<Entries, keywords, curSet, pathname, toCheck, result, ret, err,
                   cwd, curDir, getwdErr, run, cwd0, fs0, nFailed, firstClean,
                   others>>

\* lines 59-61: ukFunc returns an error
KeyValUpdateFails ==
    /\ upc = "kv"
    /\ inSlice(Keyword(toCheck[j]), keywords)
    /\ Keyword(toCheck[j]) \in UpdateKeywordFuncs
    /\ result' = [Failures |-> AppendFailure(result.Failures,
                      [Path |-> pathname, Keyword |-> Keyword(toCheck[j]), Got |-> "error"])]
    /\ nFailed' = nFailed + 1
    /\ lastCall' = ThisCall(FALSE)
    /\ NextKeyVal
    /\ UNCHANGED <<Entries, keywords, curSet, pathname, toCheck, ret, err, cwd,
                   curDir, getwdErr, fs, run, cwd0, fs0, firstClean, others>>

\* line 66: return &result, nil
UpdateReturn ==
    /\ upc = "loop" /\ i > Len(Entries)
    /\ Return("&result", "nil")
    /\ UNCHANGED <<Entries, keywords, i, j, curSet, pathname, toCheck, result,
                   curDir, getwdErr, fs, run, cwd0, fs0, lastCall, nFailed, others>>

-----------------------------------------------------------------------------
(* Vis(src): the size check before the buffer is allocated.  Go's int is  *)
(* 64 bits wide and the check converts to uint32; the numbers are kept as *)
(* little-endian sequences of 16-bit limbs.                               *)

Limb == 256 * 256

\* x*m + a over the limbs of x, the carry out of the last limb appended
RECURSIVE MulAdd(_, _, _)
MulAdd(x, m, a) ==
    IF x = <<>> THEN <<a>>
    ELSE LET t == Head(x) * m + a
         IN  <<t % Limb>> \o MulAdd(Tail(x), m, t \div Limb)

\* x \div d, from the most significant limb down; r is the remainder carried in
RECURSIVE DivLimbs(_, _, _)
DivLimbs(x, d, r) ==
    IF x = <<>> THEN <<>>
    ELSE LET t == r * Limb + x[Len(x)]
         IN  DivLimbs(SubSeq(x, 1, Len(x) - 1), d, t % d) \o <<t \div d>>

LimbAt(x, n) == IF n <= Len(x) THEN x[n] ELSE 0

\* x >= y
GeLimbs(x, y) ==
    LET top == IF Len(x) > Len(y) THEN Len(x) ELSE Len(y)
    IN  \/ \A n \in 1..top : LimbAt(x, n) = LimbAt(y, n)
        \/ \E n \in 1..top :
              /\ LimbAt(x, n) > LimbAt(y, n)
              /\ \A m \in (n+1)..top : LimbAt(x, m) = LimbAt(y, m)

MaxUint32 == <<65535, 65535>>

\* int(len(src)*4+1): 64 bits, the carry out is lost
IntSize(len) == SubSeq(MulAdd(len, 4, 1), 1, 4)

\* uint32(...): the low 32 bits
Uint32(x) == SubSeq(x, 1, 2)

\* line 16
VisTooBig(len) == GeLimbs(Uint32(IntSize(len)), DivLimbs(MaxUint32, 4, 0))

LimbChoices == {0, 1, 4095, 4096, 16384, 65535}

VisIdle == srcLen = <<>> /\ visErr = FALSE /\ vpc = "off"

VisInit ==
    /\ \E l0 \in LimbChoices, l1 \in LimbChoices, l2 \in {0, 1}, l3 \in {0, 32767} :
          srcLen = <<l0, l1, l2, l3>>
    /\ visErr = FALSE
    /\ vpc = "call"

\* lines 16-18
VisRejects ==
    /\ vpc = "call"
    /\ VisTooBig(srcLen)
    /\ visErr' = TRUE
    /\ vpc' = "done"
    /\ UNCHANGED <<srcLen, mergeVars, updateVars, mainVars>>

\* lines 19-25
VisEncodes ==
    /\ vpc = "call"
    /\ ~VisTooBig(srcLen)
    /\ visErr' = FALSE
    /\ vpc' = "done"
    /\ UNCHANGED <<srcLen, mergeVars, updateVars, mainVars>>

-----------------------------------------------------------------------------
(* gomtree main(): the path to the exit code.  -k, -K, -bsd-keywords, -p    *)
(* and -debug choose keywords, the root and logging and take no part in it. *)

\* the keys of the formats map
formats == {"bsd", "json", "path"}

NoResult == [nil |-> TRUE, Failures |-> FALSE, Extra |-> FALSE, Missing |-> FALSE]

\* a *Result: which of its lists are non-empty
Results == [nil : {FALSE}, Failures : BOOLEAN, Extra : BOOLEAN, Missing : BOOLEAN]

MainIdle ==
    /\ fl = [version |-> FALSE] /\ res = NoResult /\ isErr = FALSE
    /\ deferExit = FALSE /\ errSeen = FALSE /\ exitCode = 0
    /\ dh = FALSE /\ tdh = FALSE /\ cpc = "off"

MainInit ==
    /\ fl \in [version : BOOLEAN, listKeywords : BOOLEAN,
               resultFormat : formats \cup {"xml"}, file : BOOLEAN,
               create : BOOLEAN, listUsed : BOOLEAN, update : BOOLEAN,
               tar : BOOLEAN]
    /\ res = NoResult /\ isErr = FALSE /\ deferExit = FALSE /\ errSeen = FALSE
    /\ exitCode = 0 /\ dh = FALSE /\ tdh = FALSE
    /\ cpc = "start"

mainOthers == <<mergeVars, updateVars, visVars>>

\* the process ends: the deferred os.Exit(1) calls, then the isErr check
\* (lines 73-78), else the exit code of a main that returned
Exit(deferred, e) ==
    /\ exitCode' = IF deferred \/ e THEN 1 ELSE 0
    /\ deferExit' = deferred
    /\ isErr' = e
    /\ cpc' = "exit"

\* lines 80-83
MainVersion ==
    /\ cpc = "start" /\ fl.version
    /\ Exit(deferExit, isErr)
    /\ UNCHANGED <<fl, res, errSeen, dh, tdh, mainOthers>>

\* lines 86-100
MainListKeywords ==
    /\ cpc = "start" /\ ~fl.version /\ fl.listKeywords
    /\ Exit(deferExit, isErr)
    /\ UNCHANGED <<fl, res, errSeen, dh, tdh, mainOthers>>

\* lines 103-108
MainBadFormat ==
    /\ cpc = "start" /\ ~fl.version /\ ~fl.listKeywords
    /\ fl.resultFormat \notin formats
    /\ errSeen' = TRUE
    /\ Exit(deferExit, TRUE)
    /\ UNCHANGED <<fl, res, dh, tdh, mainOthers>>

\* lines 103-148
MainKeywords ==
    /\ cpc = "start" /\ ~fl.version /\ ~fl.listKeywords
    /\ fl.resultFormat \in formats
    /\ cpc' = "file"
    /\ UNCHANGED <<fl, res, isErr, deferExit, errSeen, exitCode, dh, tdh, mainOthers>>

\* lines 151-167: the manifest is opened and parsed
MainLoadSpec ==
    /\ cpc = "file"
    /\ dh' = (fl.file /\ ~fl.create)
    /\ cpc' = "listUsed"
    /\ UNCHANGED <<fl, res, isErr, deferExit, errSeen, exitCode, tdh, mainOthers>>

\* lines 154-166: os.Open or ParseSpec returns an error
MainLoadSpecFails ==
    /\ cpc = "file" /\ fl.file /\ ~fl.create
    /\ errSeen' = TRUE
    /\ Exit(deferExit, TRUE)
    /\ UNCHANGED <<fl, res, dh, tdh, mainOthers>>

\* lines 170-199
MainListUsed ==
    /\ cpc = "listUsed" /\ fl.listUsed
    /\ \/ /\ ~fl.file
          /\ errSeen' = TRUE
          /\ Exit(TRUE, TRUE)
       \/ /\ fl.file /\ fl.resultFormat = "json"
          /\ errSeen' = TRUE             \* json.MarshalIndent returns an error
          /\ Exit(TRUE, TRUE)
       \/ /\ fl.file
          /\ errSeen' = errSeen
          /\ Exit(deferExit, isErr)
    /\ UNCHANGED <<fl, res, dh, tdh, mainOthers>>

\* lines 202-205
MainRootPath ==
    /\ cpc = "listUsed" /\ ~fl.listUsed
    /\ cpc' = "tar"
    /\ UNCHANGED <<fl, res, isErr, deferExit, errSeen, exitCode, dh, tdh, mainOthers>>

\* lines 209-213
MainUpdateWithTar ==
    /\ cpc = "tar" /\ fl.update /\ fl.tar
    /\ errSeen' = TRUE
    /\ Exit(deferExit, TRUE)
    /\ UNCHANGED <<fl, res, dh, tdh, mainOthers>>

\* lines 216-250: the archive is read into tdh
MainTar ==
    /\ cpc = "tar" /\ ~(fl.update /\ fl.tar)
    /\ tdh' = fl.tar
    /\ cpc' = "op"
    /\ UNCHANGED <<fl, res, isErr, deferExit, errSeen, exitCode, dh, mainOthers>>

\* lines 222-248: os.Open, io.Copy, Close or Hierarchy returns an error
MainTarFails ==
    /\ cpc = "tar" /\ ~fl.update /\ fl.tar
    /\ errSeen' = TRUE
    /\ Exit(deferExit, TRUE)
    /\ UNCHANGED <<fl, res, dh, tdh, mainOthers>>

\* lines 253-267: -c; Walk may return an error
MainCreate ==
    /\ cpc = "op" /\ fl.create
    /\ \/ /\ errSeen' = errSeen
          /\ Exit(deferExit, isErr)
       \/ /\ ~tdh
          /\ errSeen' = TRUE
          /\ Exit(deferExit, TRUE)
    /\ UNCHANGED <<fl, res, dh, tdh, mainOthers>>

\* lines 268-284: -u; Update returns an error, or a Result
MainUpdate ==
    /\ cpc = "op" /\ ~fl.create /\ fl.update /\ dh
    /\ \/ /\ errSeen' = TRUE
          /\ res' = res
          /\ Exit(deferExit, TRUE)
       \/ /\ \E failures \in BOOLEAN :
                res' = [nil |-> FALSE, Failures |-> failures,
                        Extra |-> FALSE, Missing |-> FALSE]
          /\ errSeen' = errSeen
          /\ Exit(deferExit, isErr)
    /\ UNCHANGED <<fl, dh, tdh, mainOthers>>

\* lines 285-333: validation with TarCheck or Check
MainCheck ==
    /\ cpc = "op" /\ ~fl.create /\ ~(fl.update /\ dh) /\ (tdh \/ dh)
    /\ \/ /\ errSeen' = TRUE             \* lines 294-298
          /\ res' = res
          /\ Exit(deferExit, TRUE)
       \/ /\ res' = NoResult             \* a nil Result
          /\ errSeen' = errSeen
          /\ Exit(deferExit, isErr)
       \/ \E r \in Results :
          /\ res' = r
          /\ \/ /\ errSeen' = errSeen
                /\ Exit(deferExit \/ r.Failures \/ r.Extra \/ r.Missing, isErr)
             \/ /\ r.Failures \/ r.Extra \/ r.Missing
                /\ errSeen' = TRUE       \* Stdout.Write or Path() returns an error
                /\ Exit(TRUE, TRUE)
    /\ UNCHANGED <<fl, dh, tdh, mainOthers>>

\* lines 334-339
MainNothing ==
    /\ cpc = "op" /\ ~fl.create /\ ~(fl.update /\ dh) /\ ~(tdh \/ dh)
    /\ errSeen' = TRUE
    /\ Exit(TRUE, TRUE)
    /\ UNCHANGED <<fl, res, dh, tdh, mainOthers>>

-----------------------------------------------------------------------------
(* Specifications *)

Init == UpdateInit /\ MergeIdle /\ VisIdle /\ MainIdle

Next ==
    \/ UpdateEnter
    \/ UpdateChdirFails
    \/ EntrySpecial
    \/ EntryOther
    \/ EntryPath
    \/ EntryPathFails
    \/ KeyValNotRequested
    \/ KeyValNoFunc
    \/ KeyValUpdate
    \/ KeyValUpdateFails
    \/ UpdateReturn

Spec == Init /\ [][Next]_vars

MergeSpecInit == MergeInit /\ UpdateIdle /\ VisIdle /\ MainIdle
MergeNext == CallMergeSet
MergeSpec == MergeSpecInit /\ [][MergeNext]_vars

VisSpecInit == VisInit /\ MergeIdle /\ UpdateIdle /\ MainIdle
VisNext == VisRejects \/ VisEncodes
VisSpec == VisSpecInit /\ [][VisNext]_vars

MainSpecInit == MainInit /\ MergeIdle /\ UpdateIdle /\ VisIdle
MainNext ==
    \/ MainVersion
    \/ MainListKeywords
    \/ MainBadFormat
    \/ MainKeywords
    \/ MainLoadSpec
    \/ MainLoadSpecFails
    \/ MainListUsed
    \/ MainRootPath
    \/ MainUpdateWithTar
    \/ MainTar
    \/ MainTarFails
    \/ MainCreate
    \/ MainUpdate
    \/ MainCheck
    \/ MainNothing
MainSpec == MainSpecInit /\ [][MainNext]_vars

-----------------------------------------------------------------------------
(* Properties *)

KeywordsOf(kvs) == { Keyword(kvs[n]) : n \in 1..Len(kvs) }

NoDupKeywords(kvs) ==
    \A m \in 1..Len(kvs) : \A n \in 1..Len(kvs) :
        m # n => Keyword(kvs[m]) # Keyword(kvs[n])

Requested(k) == \E n \in 1..Len(keywords) : keywords[n] = k

IsPathEntry(e) == e.Type \in {"RelativeType", "FullType"}

\* each path occurs in one entry of the manifest
UniquePaths ==
    \A m \in 1..Len(Entries) : \A n \in 1..Len(Entries) :
        (m # n /\ IsPathEntry(Entries[m]) /\ IsPathEntry(Entries[n]))
            => Path(Entries[m]) # Path(Entries[n])

Clean == upc = "done" /\ ret = "&result" /\ result.Failures = <<>>

\* the /set in effect after the entries es, by the inheritance rule of the
\* manifest format: /set merges into the old set, /unset removes what it lists
RECURSIVE FoldSet(_)
FoldSet(es) ==
    IF es = <<>> THEN <<>>
    ELSE LET prev == FoldSet(SubSeq(es, 1, Len(es) - 1))
             e == es[Len(es)]
         IN  IF e.Type = "SpecialType" /\ e.Name = "/set"
             THEN MergeSet(prev, e.Keywords)
             ELSE IF e.Type = "SpecialType" /\ e.Name = "/unset"
             THEN SelectSeq(prev, LAMBDA kv :
                      \A n \in 1..Len(e.Keywords) : e.Keywords[n] # Keyword(kv))
             ELSE prev

\* C1: MergeSet precedence.  For a keyword both lists contain, Has on the
\* result gives the entry's keyval; the first Len(S) elements of the result
\* keep S's keywords in S's positions, with S's keyval where the entry does not
\* have the keyword; the elements after them are the keyvals of E whose keyword
\* S does not have, in E's order.
C1_MergeSetPrecedence ==
    mpc = "done" =>
        /\ \A k \in KeywordsOf(setKeyVals) \cap KeywordsOf(entryKeyVals) :
              Has(retList, k) = Has(entryKeyVals, k)
        /\ Len(retList) >= Len(setKeyVals)
        /\ \A n \in 1..Len(setKeyVals) :
              /\ Keyword(retList[n]) = Keyword(setKeyVals[n])
              /\ Keyword(setKeyVals[n]) \notin KeywordsOf(entryKeyVals)
                    => retList[n] = setKeyVals[n]
        /\ SubSeq(retList, Len(setKeyVals) + 1, Len(retList))
              = SelectSeq(entryKeyVals,
                          LAMBDA kv : Keyword(kv) \notin KeywordsOf(setKeyVals))

\* a merge with a shared keyword of different values, a keyword only in the
\* set and a keyword only in the entry
C1_Witness ==
    /\ mpc = "done"
    /\ \E k \in KeywordsOf(setKeyVals) \cap KeywordsOf(entryKeyVals) :
          Has(setKeyVals, k) # Has(entryKeyVals, k)
    /\ KeywordsOf(setKeyVals) \ KeywordsOf(entryKeyVals) # {}
    /\ KeywordsOf(entryKeyVals) \ KeywordsOf(setKeyVals) # {}
    /\ Len(retList) > Len(setKeyVals)

\* C2: a keyword appears at most once in an entry's effective keyval list:
\* neither MergeSet of the active set and the entry's keyvals nor the list
\* Update iterates for the entry holds two keyvals of the same Keyword().
C2_KeywordOnce ==
    upc = "kv" =>
        /\ NoDupKeywords(MergeSet(CurSetKeywords, Entries[i].Keywords))
        /\ NoDupKeywords(toCheck)

\* C3: for a manifest in which each path occurs in one entry, after Update
\* returned a Result without Failures, every property the entry itself
\* carries, the caller asked for and the registry can update has the entry's
\* own value, whatever the active /set says; so Check has nothing to report
\* for it.
C3_UpdateRestores ==
    (Clean /\ UniquePaths) =>
        \A n \in 1..Len(Entries) : IsPathEntry(Entries[n]) =>
            \A m \in 1..Len(Entries[n].Keywords) :
                LET kv == Entries[n].Keywords[m]
                IN  (Requested(Keyword(kv)) /\ Keyword(kv) \in UpdateKeywordFuncs)
                        => fs[Path(Entries[n])][Keyword(kv)] = Value(kv)

\* a clean Update of an entry whose property differed before the call (Check
\* would have reported it) and whose active /set carries another value for it
C3_Witness ==
    /\ Clean /\ UniquePaths
    /\ \E n \in 1..Len(Entries) : \E s \in 1..Len(Entries) :
          /\ s < n /\ IsPathEntry(Entries[n])
          /\ Entries[s].Type = "SpecialType" /\ Entries[s].Name = "/set"
          /\ \A t \in (s+1)..(n-1) : Entries[t].Type # "SpecialType"
          /\ \E m \in 1..Len(Entries[n].Keywords) :
                LET kv == Entries[n].Keywords[m]
                IN  /\ Requested(Keyword(kv)) /\ Keyword(kv) \in UpdateKeywordFuncs
                    /\ Has(Entries[s].Keywords, Keyword(kv)) # emptyKV
                    /\ Value(Has(Entries[s].Keywords, Keyword(kv))) # Value(kv)
                    /\ fs0[Path(Entries[n])][Keyword(kv)] # Value(kv)
                    /\ fs[Path(Entries[n])][Keyword(kv)] = Value(kv)

\* C4: Update idempotence, for manifests in which each path occurs in one
\* entry: in an Update that follows an Update without failures, every update
\* function is called with the value the property has at that moment.
C4_SecondRunNoMutation ==
    (lastCall.valid /\ lastCall.run >= 2 /\ UniquePaths)
        => lastCall.value = lastCall.before

\* C5: at every Relative or Full entry, the set keyvals Update uses are the
\* fold of the preceding special entries by the manifest's inheritance rule.
C5_SetInheritance ==
    (upc = "loop" /\ i <= Len(Entries) /\ IsPathEntry(Entries[i]))
        => CurSetKeywords = FoldSet(SubSeq(Entries, 1, i - 1))

\* a failing call of an update function adds one Failure with the call's path
\* and keyword and goes on with the next keyval or entry
FailureRecorded ==
    (lastCall' # lastCall /\ ~lastCall'.ok) =>
        /\ Len(result'.Failures) = Len(result.Failures) + 1
        /\ SubSeq(result'.Failures, 1, Len(result.Failures)) = result.Failures
        /\ result'.Failures[Len(result'.Failures)].Path = lastCall'.path
        /\ result'.Failures[Len(result'.Failures)].Keyword = lastCall'.keyword
        /\ upc' \in {"kv", "loop"}
        /\ (upc' = "kv" /\ i' = i /\ j' = j + 1) \/ (upc' = "loop" /\ i' = i + 1)
        /\ fs' = fs

\* C6 as stated: once an update function has failed, Update goes on through
\* all later entries and returns a non-nil Result, a nil error and one Failure
\* for each failing call.
C6_AlwaysReturnsResult ==
    (upc = "done" /\ nFailed > 0)
        => (ret = "&result" /\ err = "nil" /\ Len(result.Failures) = nFailed)

\* C6, amended: a failing update function adds exactly one Failure with its
\* path and keyword and does not end the loop; Update then returns a non-nil
\* Result with a nil error and as many Failures as calls failed, unless
\* Path() fails for a later entry: then it returns (nil, err) and the Failures
\* gathered so far are not returned.
C6_FailuresAccumulate ==
    /\ [][FailureRecorded]_vars
    /\ [](upc = "done" =>
            \/ /\ ret = "&result" /\ err = "nil"
               /\ Len(result.Failures) = nFailed
               /\ i = Len(Entries) + 1
            \/ /\ ret = "nil" /\ err = "path"
               /\ i <= Len(Entries) /\ IsPathEntry(Entries[i]) /\ PathErr(Entries[i])
            \/ /\ ret = "nil" /\ err = "chdir" /\ nFailed = 0)

\* an Update that returned its Result after a failing call and a later
\* successful one
C6_Witness ==
    /\ upc = "done" /\ ret = "&result" /\ err = "nil"
    /\ nFailed > 0 /\ Len(result.Failures) = nFailed
    /\ lastCall.valid /\ lastCall.ok
    /\ lastCall.entry > 1

\* C7: the process exits with 1 exactly when failures, missing or extra
\* entries were detected or an invocation error occurred.
C7_ExitCode ==
    cpc = "exit" =>
        (exitCode = 1 <=> (res.Failures \/ res.Extra \/ res.Missing \/ errSeen))

\* C8: Vis returns an error exactly when 4*len(src)+1 is at or above
\* floor((2^32-1)/4).
C8_VisCeiling ==
    vpc = "done" =>
        (visErr <=> GeLimbs(MulAdd(srcLen, 4, 1), DivLimbs(MaxUint32, 4, 0)))

\* one step of Update: an update function is called only at a keyval of a
\* Relative or Full entry whose keyword the caller listed and the registry
\* has; a property changes only by such a call and only to the keyval's value;
\* no object appears or disappears; the manifest stays as it is.
OnlyRequestedTouched ==
    /\ (lastCall' # lastCall \/ fs' # fs) =>
          /\ upc = "kv"
          /\ IsPathEntry(Entries[i])
          /\ Requested(Keyword(toCheck[j]))
          /\ Keyword(toCheck[j]) \in UpdateKeywordFuncs
          /\ lastCall'.keyword = Keyword(toCheck[j])
          /\ \A o \in DOMAIN fs : \A k \in DOMAIN fs[o] :
                fs'[o][k] # fs[o][k] => (o = pathname /\ k = Keyword(toCheck[j]))
    /\ DOMAIN fs' = DOMAIN fs
    /\ \A o \in DOMAIN fs : \A k \in DOMAIN fs[o] :
          ~Requested(k) => fs'[o][k] = fs[o][k]
    /\ Entries' = Entries
    /\ keywords' = keywords

C10_CwdRestored == upc = "done" => cwd = cwd0

====
